---- MODULE Spec2Model ----
(***************************************************************************)
(* Model of the STUN binding client in stun_c/StunClient.go: one call of   *)
(* RequestRemoteIPAndPort (argument check, transaction id, header, send    *)
(* loop, receive loop, response decoding) and the pure helpers it uses.    *)
(* Byte slices are sequences of 0..255; a Go slice into the receive buffer *)
(* is an (offset, length) pair, its capacity being what is left of the     *)
(* 1280-byte buffer.                                                       *)
(***************************************************************************)
EXTENDS Integers, Sequences, FiniteSets, TLC

VARIABLES conn, server, pc, secureRandomNumber, request_header,
          msgOff, msgLen, size, sent, sendOK, readAttempted, readN,
          dgram, result,
          xpc, xT, xFamily, xIp, xPort, xValue, xResult,
          hpc, hType, hLen, hCookie, hTid, hBytes, hParsed,
          cpc, ctid, cgot, cres, wire, inbox

callVars == <<conn, server, pc, secureRandomNumber, request_header,
              msgOff, msgLen, size, sent, sendOK, readAttempted, readN,
              dgram, result>>

xorVars == <<xpc, xT, xFamily, xIp, xPort, xValue, xResult>>

hdrVars == <<hpc, hType, hLen, hCookie, hTid, hBytes, hParsed>>

twoVars == <<cpc, ctid, cgot, cres, wire, inbox>>

vars == <<callVars, xorVars, hdrVars, twoVars>>

-----------------------------------------------------------------------------
(* Program constants *)

MAGIC_COOKIE == 554869826          \* 0x2112A442
REQUEST == 1                       \* 0x0001
SUCCESS_RESPONSE == 257            \* 0x0101
ERROR_RESPONSE == 272              \* 0x0110
trans_id_size == 96
MAPPED_ADDRESS == 1                \* 0x0001
USERNAME == 6                      \* 0x0006
XOR_MAPPED_ADDRESS == 32           \* 0x0020
PacketSize == 1280                 \* make([]byte, 1280)
HeaderSize == 20                   \* packet[0:20]
smallBufferSize == 64              \* capacity of a fresh bytes.Buffer

NIL == "nil"

-----------------------------------------------------------------------------
(* Fixed-width integers and byte order (encoding/binary, BigEndian) *)

RECURSIVE XorBits(_, _, _)
XorBits(a, b, n) ==
    IF n = 0 THEN 0
    ELSE (((a % 2) + (b % 2)) % 2) + 2 * XorBits(a \div 2, b \div 2, n - 1)

ToInt16(u) == IF u >= 32768 THEN u - 65536 ELSE u

\* the int32 whose big-endian bytes are b
Int32(b) ==
    ((IF b[1] >= 128 THEN b[1] - 256 ELSE b[1]) * 256 + b[2]) * 65536
        + b[3] * 256 + b[4]

U16(hi, lo) == hi * 256 + lo

BE16(v) == << (v \div 256) % 256, v % 256 >>

BE32(v) == << (v \div 16777216) % 256, (v \div 65536) % 256,
              (v \div 256) % 256, v % 256 >>

Min(a, b) == IF a < b THEN a ELSE b

-----------------------------------------------------------------------------
(* Results: the pair (address, error) a Go function returns, or a panic *)

NilAddr == [isNil |-> TRUE, IP |-> <<>>, Port |-> 0]

UDPAddr(ip, port) == [isNil |-> FALSE, IP |-> ip, Port |-> port]

Err(kind, a, b) == [kind |-> kind, a |-> a, b |-> b]

NoErr == Err(NIL, <<>>, <<>>)

Ret(addr, err) == [addr |-> addr, err |-> err, panicked |-> FALSE]

Panic == [addr |-> NilAddr, err |-> NoErr, panicked |-> TRUE]

NoResult == [addr |-> NilAddr, err |-> Err("pending", <<>>, <<>>), panicked |-> FALSE]

-----------------------------------------------------------------------------
(* The receive buffer: 1280 zero bytes overwritten by the datagram read.   *)
(* At(d, i) is byte i (from 1) of the buffer after reading datagram d.     *)

At(d, i) == IF i <= Len(d) /\ i <= PacketSize THEN d[i] ELSE 0

\* Go's packet[lo:hi], 0-based, as a sequence
Slice(d, lo, hi) == [k \in 1..(hi - lo) |-> At(d, lo + k)]

\* a slice of the buffer: first index lo (0-based) and length; its capacity
Cap(body) == PacketSize - body.lo

-----------------------------------------------------------------------------
(* Helper functions *)

\* makeHeader writing the still zeroed id buffer instead of transaction_id
makeHeader_zeroId(message_type, message_length, magic_cookie, transaction_id) ==
    BE16(message_type) \o BE16(message_length) \o BE32(magic_cookie)
        \o [i \in 1..Len(transaction_id) |-> 0]

\* makeHeader writing the length before the type
makeHeader_lengthFirst(message_type, message_length, magic_cookie, transaction_id) ==
    BE16(message_length) \o BE16(message_type) \o BE32(magic_cookie)
        \o transaction_id

makeHeader(message_type, message_length, magic_cookie, transaction_id) ==
    BE16(message_type) \o BE16(message_length) \o BE32(magic_cookie)
        \o transaction_id

getSingleAttribute(d, body) ==
    LET fail(kind, p) == [attr_type |-> 0, attr_len |-> 0, value |-> <<>>,
                          r |-> 0, err |-> Err(kind, <<>>, <<>>), panic |-> p]
        Attr_type == ToInt16(U16(At(d, body.lo + 1), At(d, body.lo + 2)))
        Attr_len  == ToInt16(U16(At(d, body.lo + 3), At(d, body.lo + 4)))
        hi        == ToInt16((4 + Attr_len) % 65536)
    IN  IF body.len = 0 THEN fail("CannotParseEmptyBody", FALSE)
        ELSE IF body.len < 4 THEN fail("UnexpectedEOF", FALSE)
        ELSE IF Attr_len < 0 THEN fail(NIL, TRUE)           \* make: negative length
        ELSE IF hi < 4 \/ hi > Cap(body) THEN fail(NIL, TRUE) \* body[4:hi] out of range
        ELSE [attr_type |-> Attr_type, attr_len |-> Attr_len,
              value |-> Slice(d, body.lo + 4, body.lo + 4 + Attr_len),
              r |-> 4 + Attr_len, err |-> NoErr, panic |-> FALSE]

\* xor_bytes whose loop stops one byte early
xor_bytes_offByOne(one, two) ==
    LET n == Min(Len(one), Len(two)) - 1
    IN  [i \in 1..Len(one) |-> IF i <= n THEN XorBits(one[i], two[i], 8) ELSE one[i]]

xor_bytes(one, two) ==
    LET n == Min(Len(one), Len(two))
    IN  [i \in 1..Len(one) |-> IF i <= n THEN XorBits(one[i], two[i], 8) ELSE one[i]]

\* get_addr_XOR that forgets to XOR the port
get_addr_XOR_rawPort(attribute, transaction_id) ==
    IF Len(attribute) = 0 THEN Ret(NilAddr, Err("EmptyAttribute", <<>>, <<>>))
    ELSE IF Len(attribute) < 4 THEN Ret(NilAddr, Err("UnexpectedEOF", <<>>, <<>>))
    ELSE LET Family == attribute[2]
             port   == U16(attribute[3], attribute[4])
             magic_cookie == BE32(MAGIC_COOKIE)
             XAddress == SubSeq(attribute, 5, Len(attribute))
         IN  IF Family = 1
             THEN Ret(UDPAddr(xor_bytes(XAddress, magic_cookie), port), NoErr)
             ELSE IF Family = 2
             THEN Ret(UDPAddr(xor_bytes(XAddress, magic_cookie \o transaction_id), port), NoErr)
             ELSE Ret(NilAddr, NoErr)

get_addr_XOR(attribute, transaction_id) ==
    IF Len(attribute) = 0 THEN Ret(NilAddr, Err("EmptyAttribute", <<>>, <<>>))
    ELSE IF Len(attribute) < 4 THEN Ret(NilAddr, Err("UnexpectedEOF", <<>>, <<>>))
    ELSE LET Family == attribute[2]
             XPort  == U16(attribute[3], attribute[4])
             port   == XorBits(XPort, (MAGIC_COOKIE \div 65536) % 65536, 16)
             magic_cookie == BE32(MAGIC_COOKIE)
             XAddress == SubSeq(attribute, 5, Len(attribute))
         IN  IF Family = 1
             THEN Ret(UDPAddr(xor_bytes(XAddress, magic_cookie), port), NoErr)
             ELSE IF Family = 2
             THEN Ret(UDPAddr(xor_bytes(XAddress, magic_cookie \o transaction_id), port), NoErr)
             ELSE Ret(NilAddr, NoErr)

get_addr(attribute) ==
    IF Len(attribute) = 0 THEN Ret(NilAddr, Err("EmptyAttribute", <<>>, <<>>))
    ELSE IF Len(attribute) < 4 THEN Ret(NilAddr, Err("UnexpectedEOF", <<>>, <<>>))
    ELSE Ret(UDPAddr(SubSeq(attribute, 5, Len(attribute)),
                     U16(attribute[3], attribute[4])), NoErr)

\* The attribute loop of recvMessage (lines 264-303).  Its state is the body
\* slice, bytes_read, the number of turns taken, and out: the value returned,
\* NoResult while the loop is running.  overrun records that some turn met an
\* attribute whose declared length (as 16 unsigned bits) is more than the
\* bytes of the body left after its 4-byte type and length.
loopStart(body) == [body |-> body, bytes_read |-> 0, turns |-> 0, out |-> NoResult,
                    overrun |-> FALSE]

\* loopTurn counting one byte of header and the value, not 4 and the value
loopTurn_countsValueOnly(d, transaction_id, Message_length, s) ==
    IF s.out # NoResult THEN s
    ELSE IF ~(s.bytes_read < Message_length)
    THEN [s EXCEPT !.out = Ret(NilAddr, NoErr)]
    ELSE LET a == getSingleAttribute(d, s.body)
             t == [s EXCEPT !.turns = s.turns + 1,
                            !.overrun = s.overrun \/
                                (s.body.len >= 4 /\
                                 U16(At(d, s.body.lo + 3), At(d, s.body.lo + 4))
                                    > s.body.len - 4)]
         IN  IF a.panic THEN [t EXCEPT !.out = Panic]
             ELSE IF a.attr_len > s.body.len
             THEN [t EXCEPT !.out = Panic]                 \* body[attr_size:]
             ELSE LET u == [t EXCEPT !.bytes_read = s.bytes_read + a.attr_len + 1,
                                     !.body = [lo  |-> s.body.lo + a.attr_len,
                                               len |-> s.body.len - a.attr_len]]
                  IN  IF a.err.kind # NIL
                      THEN [u EXCEPT !.out = Ret(NilAddr, a.err)]
                      ELSE IF a.attr_type = MAPPED_ADDRESS
                      THEN [u EXCEPT !.out = get_addr(a.value)]
                      ELSE IF a.attr_type = XOR_MAPPED_ADDRESS
                      THEN [u EXCEPT !.out = get_addr_XOR(a.value, transaction_id)]
                      ELSE u

\* one test of the loop condition and, if it holds, one turn of the loop
loopTurn(d, transaction_id, Message_length, s) ==
    IF s.out # NoResult THEN s
    ELSE IF ~(s.bytes_read < Message_length)
    THEN [s EXCEPT !.out = Ret(NilAddr, NoErr)]
    ELSE LET a == getSingleAttribute(d, s.body)
             t == [s EXCEPT !.turns = s.turns + 1,
                            !.overrun = s.overrun \/
                                (s.body.len >= 4 /\
                                 U16(At(d, s.body.lo + 3), At(d, s.body.lo + 4))
                                    > s.body.len - 4)]
         IN  IF a.panic THEN [t EXCEPT !.out = Panic]
             ELSE IF a.attr_len > s.body.len
             THEN [t EXCEPT !.out = Panic]                 \* body[attr_size:]
             ELSE LET u == [t EXCEPT !.bytes_read = s.bytes_read + a.r,
                                     !.body = [lo  |-> s.body.lo + a.attr_len,
                                               len |-> s.body.len - a.attr_len]]
                  IN  IF a.err.kind # NIL
                      THEN [u EXCEPT !.out = Ret(NilAddr, a.err)]
                      ELSE IF a.attr_type = MAPPED_ADDRESS
                      THEN [u EXCEPT !.out = get_addr(a.value)]
                      ELSE IF a.attr_type = XOR_MAPPED_ADDRESS
                      THEN [u EXCEPT !.out = get_addr_XOR(a.value, transaction_id)]
                      ELSE u

\* n turns of the loop, by halves to keep the evaluation shallow
RECURSIVE loopTurns(_, _, _, _, _)
loopTurns(d, transaction_id, Message_length, s, n) ==
    IF n = 0 \/ s.out # NoResult THEN s
    ELSE IF n = 1 THEN loopTurn(d, transaction_id, Message_length, s)
    ELSE LET h == loopTurns(d, transaction_id, Message_length, s, n \div 2)
         IN  loopTurns(d, transaction_id, Message_length, h, n - (n \div 2))

\* the loop run until it returns, however many turns that takes
RECURSIVE loopRun(_, _, _, _, _)
loopRun(d, transaction_id, Message_length, s, n) ==
    LET t == loopTurns(d, transaction_id, Message_length, s, n)
    IN  IF t.out # NoResult THEN t
        ELSE loopRun(d, transaction_id, Message_length, t, 2 * n)

attributeLoop(d, transaction_id, Message_length, body) ==
    loopRun(d, transaction_id, Message_length, loopStart(body), 4)

\* the header fields recvMessage reads from packet[0:20] (lines 237-250)
parseHeader(d) ==
    LET header == Slice(d, 0, HeaderSize)
    IN  [header         |-> header,
         Message_type   |-> ToInt16(U16(header[1], header[2])),
         Message_length |-> ToInt16(U16(header[3], header[4])),
         Magic_cookie   |-> Int32(SubSeq(header, 5, 8)),
         Transaction_id |-> SubSeq(header, 9, 20)]

\* does recvMessage get as far as the attribute loop on datagram d
reachesLoop(d, transaction_id) ==
    LET data == parseHeader(d)
    IN  /\ data.Message_length >= 0
        /\ data.Message_length <= PacketSize - HeaderSize
        /\ data.Message_type = SUCCESS_RESPONSE
        /\ data.Transaction_id = transaction_id

\* the attribute loop's last state on datagram d
lastLoop(d, transaction_id) ==
    LET data == parseHeader(d)
    IN  attributeLoop(d, transaction_id, data.Message_length,
                      [lo |-> HeaderSize, len |-> data.Message_length])

\* recvMessage refusing a header whose cookie is not the constant
recvMessage_checksCookie(d, transaction_id) ==
    LET data == parseHeader(d)
    IN  IF data.Message_length < 0 \/ data.Message_length > PacketSize - HeaderSize
        THEN Panic
        ELSE LET body == [lo |-> HeaderSize, len |-> data.Message_length]
             IN  IF data.Message_type # SUCCESS_RESPONSE
                      \/ data.Magic_cookie # MAGIC_COOKIE
                 THEN Ret(NilAddr, Err("Not_Success_Response", data.header,
                                       Slice(d, body.lo, body.lo + body.len)))
                 ELSE IF ~(data.Transaction_id = transaction_id)
                 THEN Ret(NilAddr, Err("Unknown_Transaction_Id",
                                       data.Transaction_id, transaction_id))
                 ELSE attributeLoop(d, transaction_id, data.Message_length,
                                    body).out

\* recvMessage without the comparison of line 260
recvMessage_noIdCheck(d, transaction_id) ==
    LET data == parseHeader(d)
    IN  IF data.Message_length < 0 \/ data.Message_length > PacketSize - HeaderSize
        THEN Panic
        ELSE LET body == [lo |-> HeaderSize, len |-> data.Message_length]
             IN  IF data.Message_type # SUCCESS_RESPONSE
                 THEN Ret(NilAddr, Err("Not_Success_Response", data.header,
                                       Slice(d, body.lo, body.lo + body.len)))
                 ELSE attributeLoop(d, data.Transaction_id, data.Message_length,
                                    body).out

\* recvMessage once a datagram d of more than zero bytes has been read
recvMessage(d, transaction_id) ==
    LET data == parseHeader(d)
    IN  IF data.Message_length < 0 \/ data.Message_length > PacketSize - HeaderSize
        THEN Panic                                         \* body[0:Message_length]
        ELSE LET body == [lo |-> HeaderSize, len |-> data.Message_length]
             IN  IF data.Message_type # SUCCESS_RESPONSE
                 THEN Ret(NilAddr, Err("Not_Success_Response", data.header,
                                       Slice(d, body.lo, body.lo + body.len)))
                 ELSE IF ~(data.Transaction_id = transaction_id)
                 THEN Ret(NilAddr, Err("Unknown_Transaction_Id",
                                       data.Transaction_id, transaction_id))
                 ELSE lastLoop(d, transaction_id).out

-----------------------------------------------------------------------------
(* Bounds of the model and the inputs drawn from them *)

MaxTid == 1          \* transaction ids 0..MaxTid that rand.Read may produce
MaxAttrs == 2        \* attributes in the body of a received datagram
MaxUserLen == 2      \* declared lengths 0..MaxUserLen of a USERNAME attribute

Zeros(n) == [i \in 1..n |-> 0]

\* TransId(0) is 00 01 .. 0B
TransId(k) == [i \in 1..(trans_id_size \div 8) |-> (k * 37 + i - 1) % 256]

TransIds == { TransId(k) : k \in 0..MaxTid }

Ports == {0, 80, 8466, 12345, 65535}

IPs4 == { <<203, 0, 113, 5>>, <<33, 18, 164, 66>> }

IPs6 == { <<32, 1, 13, 184, 0, 0, 0, 0, 0, 0, 0, 0, 0, 0, 0, 1>>,
          [i \in 1..16 |-> 255 - i] }

\* what a STUN server does (RFC 5389, 15.2): the encoding get_addr_XOR undoes
XorEncode(family, ip, port, tid) ==
    LET mask == IF family = 1 THEN <<33, 18, 164, 66>>
                ELSE <<33, 18, 164, 66>> \o tid
    IN  <<0, family>> \o BE16(XorBits(port, 8466, 16))
            \o [i \in 1..Len(ip) |-> XorBits(ip[i], mask[i], 8)]

Attr(type, length, value) == BE16(type) \o BE16(length) \o value

\* the 20-byte header of a message on the wire (RFC 5389, section 6)
StunHeader(type, length, cookie, tid) ==
    << type \div 256, type % 256, length \div 256, length % 256,
       cookie \div 16777216, (cookie \div 65536) % 256,
       (cookie \div 256) % 256, cookie % 256 >> \o tid

\* well-formed attributes of a type the attribute loop skips
SkippedAttrs ==
       { Attr(USERNAME, k, [i \in 1..k |-> 96 + i]) : k \in 0..MaxUserLen }
  \cup { Attr(32802, 4, <<103, 111, 33, 0>>) }          \* 0x8022 SOFTWARE

\* well-formed address attributes as a server builds them for the address
\* addr (RFC 5389, 15.1 and 15.2); family 3 is one no RFC defines, for which
\* there is no address
AddressAttrs(tid) ==
       { [bytes |-> Attr(XOR_MAPPED_ADDRESS, 8, XorEncode(1, ip, 12345, tid)),
          addr  |-> UDPAddr(ip, 12345)] : ip \in IPs4 }
  \cup { [bytes |-> Attr(XOR_MAPPED_ADDRESS, 20,
                         XorEncode(2, [i \in 1..16 |-> 255 - i], 80, tid)),
          addr  |-> UDPAddr([i \in 1..16 |-> 255 - i], 80)],
         [bytes |-> Attr(MAPPED_ADDRESS, 8, <<0, 1, 48, 57, 203, 0, 113, 5>>),
          addr  |-> UDPAddr(<<203, 0, 113, 5>>, 12345)],
         [bytes |-> Attr(XOR_MAPPED_ADDRESS, 8, <<0, 3, 17, 43, 234, 18, 213, 71>>),
          addr  |-> NilAddr] }

\* attributes a response may carry; tid is the id in the response's header
Attrs(tid) ==
       SkippedAttrs
  \cup { a.bytes : a \in AddressAttrs(tid) }
  \cup { Attr(USERNAME, 2000, <<>>),
         Attr(USERNAME, 65535, <<>>) }

RECURSIVE Bodies(_, _)
Bodies(tid, n) ==
    IF n = 0 THEN { <<>> }
    ELSE Bodies(tid, n - 1)
         \cup { b \o a : b \in Bodies(tid, n - 1), a \in Attrs(tid) }

\* message_length values a header may declare for a body of b bytes
Lengths(b) == { b, b + 4, 1261, 65535 }
              \cup (IF b >= 4 THEN { b - 4 } ELSE {})

Trailers == { <<>>, <<255, 255, 255, 255>> }

\* datagrams shorter than a header: the first bytes of a success response
ShortDatagrams(tid) ==
    { SubSeq(StunHeader(SUCCESS_RESPONSE, ml, MAGIC_COOKIE, tid), 1, k) :
         ml \in {0, 65535}, k \in {1, 2, 4, HeaderSize - 1} }

\* datagrams the socket may deliver to a call whose transaction id is tid:
\* success responses echoing tid, responses of another type, with another
\* id or with another magic cookie, and datagrams shorter than a header
Datagrams(tid) ==
       ShortDatagrams(tid)
  \cup UNION { { StunHeader(SUCCESS_RESPONSE, ml, MAGIC_COOKIE, tid) \o b \o t :
                    ml \in Lengths(Len(b)), t \in Trailers } :
               b \in Bodies(tid, MaxAttrs) }
  \cup UNION { { StunHeader(ty, ml, ck, t) \o b :
                    ty \in {SUCCESS_RESPONSE, ERROR_RESPONSE, 273, REQUEST},
                    ml \in Lengths(Len(b)) \cup {1260}, ck \in {MAGIC_COOKIE, 0},
                    t \in TransIds } :
               b \in Bodies(tid, 1) }

-----------------------------------------------------------------------------
(* One call of RequestRemoteIPAndPort *)

\* the backing array of the bytes.Buffer holding header ++ body: the message
\* followed by the unused rest of the buffer's capacity
msgCap == IF Len(request_header) > smallBufferSize
          THEN Len(request_header) ELSE smallBufferSize

BufAt(i) == IF i <= Len(request_header) THEN request_header[i] ELSE 0

\* no makeHeader exercise is running
HdrIdle ==
    /\ hpc = "idle" /\ hType = 0 /\ hLen = 0 /\ hCookie = 0
    /\ hTid = <<>> /\ hBytes = <<>> /\ hParsed = <<>>

\* no concurrent calls are running
TwoIdle ==
    /\ cpc = <<>> /\ ctid = <<>> /\ cgot = <<>> /\ cres = <<>>
    /\ wire = {} /\ inbox = {}

Init ==
    /\ conn \in {NIL, "conn"}
    /\ server \in {NIL, "server"}
    /\ pc = "start"
    /\ secureRandomNumber = <<>>
    /\ request_header = <<>>
    /\ msgOff = 0 /\ msgLen = 0 /\ size = 0
    /\ sent = <<>>
    /\ sendOK = FALSE
    /\ readAttempted = FALSE
    /\ readN = 0
    /\ dgram = <<>>
    /\ result = NoResult
    /\ xpc = "idle" /\ xT = <<>> /\ xFamily = 0 /\ xIp = <<>> /\ xPort = 0
    /\ xValue = <<>> /\ xResult = NoResult
    /\ HdrIdle
    /\ TwoIdle

\* lines 308-314
CheckArgs ==
    /\ pc = "start"
    /\ IF conn = NIL \/ server = NIL
       THEN /\ result' = Ret(NilAddr, Err("Gen_Random_Error", <<>>, <<>>))
            /\ pc' = "done"
            /\ UNCHANGED <<request_header, secureRandomNumber>>
       ELSE /\ request_header' = Zeros(HeaderSize)
            /\ secureRandomNumber' = Zeros(trans_id_size \div 8)
            /\ pc' = "rand"
            /\ UNCHANGED result
    /\ UNCHANGED <<conn, server, msgOff, msgLen, size, sent, sendOK,
                   readAttempted, dgram>>
    /\ UNCHANGED <<readN, xorVars, hdrVars, twoVars>>

\* lines 317-320, rand.Read succeeds
RandRead ==
    /\ pc = "rand"
    /\ \E t \in TransIds : secureRandomNumber' = t
    /\ pc' = "makeHeader"
    /\ UNCHANGED <<conn, server, request_header, msgOff, msgLen, size, sent,
                   sendOK, readAttempted, dgram, result>>
    /\ UNCHANGED <<readN, xorVars, hdrVars, twoVars>>

\* lines 317-320, rand.Read fails
RandReadFail ==
    /\ pc = "rand"
    /\ result' = Ret(NilAddr, Err("Gen_Random_Error", <<>>, <<>>))
    /\ pc' = "done"
    /\ UNCHANGED <<conn, server, secureRandomNumber, request_header, msgOff,
                   msgLen, size, sent, sendOK, readAttempted, dgram>>
    /\ UNCHANGED <<readN, xorVars, hdrVars, twoVars>>

\* lines 323-326
MakeHeader ==
    /\ pc = "makeHeader"
    /\ request_header' = makeHeader(REQUEST, 0, MAGIC_COOKIE, secureRandomNumber)
    /\ pc' = "send"
    /\ UNCHANGED <<conn, server, secureRandomNumber, msgOff, msgLen, size,
                   sent, sendOK, readAttempted, dgram, result>>
    /\ UNCHANGED <<readN, xorVars, hdrVars, twoVars>>

\* sendMessage up to the first test of the loop (lines 112-131); body is nil
SendBegin ==
    /\ pc = "send"
    /\ IF Len(request_header) = 0
       THEN /\ result' = Ret(NilAddr, Err("Message_Send_Error", <<>>, <<>>))
            /\ pc' = "done"
            /\ UNCHANGED <<msgOff, msgLen, size, sendOK>>
       ELSE /\ msgOff' = 0
            /\ msgLen' = Len(request_header)
            /\ size' = Len(request_header)
            /\ sendOK' = (size' = 0)
            /\ pc' = IF size' # 0 THEN "write" ELSE "recv"
            /\ UNCHANGED result
    /\ UNCHANGED <<conn, server, secureRandomNumber, request_header, sent,
                   readAttempted, dgram>>
    /\ UNCHANGED <<readN, xorVars, hdrVars, twoVars>>

\* one turn of the send loop (lines 131-138): the socket accepts n of the
\* msgLen bytes offered, then msg = msg[n : cap(msg)] and size -= n
WriteToUDP ==
    /\ pc = "write"
    /\ \E n \in 0..msgLen :
          /\ sent' = sent \o [k \in 1..n |-> BufAt(msgOff + k)]
          /\ msgOff' = msgOff + n
          /\ msgLen' = msgCap - (msgOff + n)
          /\ size' = size - n
    /\ sendOK' = (size' = 0)
    /\ pc' = IF size' # 0 THEN "write" ELSE "recv"
    /\ UNCHANGED <<conn, server, secureRandomNumber, request_header,
                   readAttempted, dgram, result>>
    /\ UNCHANGED <<readN, xorVars, hdrVars, twoVars>>

\* lines 132-135 and 330-332: the write fails
WriteToUDPFail ==
    /\ pc = "write"
    /\ result' = Ret(NilAddr, Err("WriteError", <<>>, <<>>))
    /\ pc' = "done"
    /\ UNCHANGED <<conn, server, secureRandomNumber, request_header, msgOff,
                   msgLen, size, sent, sendOK, readAttempted, dgram>>
    /\ UNCHANGED <<readN, xorVars, hdrVars, twoVars>>

\* ReadZero with the loop left on any read without error (n >= 0 at line 231)
ReadZero_returns ==
    /\ pc = "recv"
    /\ readAttempted' = TRUE
    /\ readN' = 0
    /\ result' = recvMessage(<<>>, secureRandomNumber)
    /\ pc' = IF result'.panicked THEN "panic" ELSE "done"
    /\ UNCHANGED <<conn, server, secureRandomNumber, request_header,
                   msgOff, msgLen, size, sent, sendOK, dgram>>
    /\ UNCHANGED <<xorVars, hdrVars, twoVars>>

\* lines 225-234: a read of zero bytes, the loop reads again
ReadZero ==
    /\ pc = "recv"
    /\ readAttempted' = TRUE
    /\ readN' = 0
    /\ UNCHANGED <<conn, server, pc, secureRandomNumber, request_header,
                   msgOff, msgLen, size, sent, sendOK, dgram, result>>
    /\ UNCHANGED <<xorVars, hdrVars, twoVars>>

\* lines 226-229 and 336-338: the read fails
ReadFail ==
    /\ pc = "recv"
    /\ readAttempted' = TRUE
    /\ readN' = 0
    /\ result' = Ret(NilAddr, Err("ReadError", <<>>, <<>>))
    /\ pc' = "done"
    /\ UNCHANGED <<conn, server, secureRandomNumber, request_header, msgOff,
                   msgLen, size, sent, sendOK, dgram>>
    /\ UNCHANGED <<xorVars, hdrVars, twoVars>>

\* lines 226-304 and 335-340: a datagram is read and decoded
ReadFromUDP ==
    /\ pc = "recv"
    /\ readAttempted' = TRUE
    /\ \E d \in Datagrams(secureRandomNumber) :
          /\ dgram' = d
          /\ readN' = Len(d)
          /\ result' = recvMessage(d, secureRandomNumber)
    /\ pc' = IF result'.panicked THEN "panic" ELSE "done"
    /\ UNCHANGED <<conn, server, secureRandomNumber, request_header, msgOff,
                   msgLen, size, sent, sendOK>>
    /\ UNCHANGED <<xorVars, hdrVars, twoVars>>

Next ==
    \/ CheckArgs
    \/ RandRead
    \/ RandReadFail
    \/ MakeHeader
    \/ SendBegin
    \/ WriteToUDP
    \/ WriteToUDPFail
    \/ ReadZero
    \/ ReadFail
    \/ ReadFromUDP

Spec == Init /\ [][Next]_vars

-----------------------------------------------------------------------------
(* get_addr_XOR on its own: a server encodes an address, the client decodes *)

InitXor ==
    /\ conn = NIL /\ server = NIL /\ pc = "idle"
    /\ secureRandomNumber = <<>> /\ request_header = <<>>
    /\ msgOff = 0 /\ msgLen = 0 /\ size = 0 /\ sent = <<>>
    /\ sendOK = FALSE /\ readAttempted = FALSE /\ readN = 0
    /\ dgram = <<>> /\ result = NoResult
    /\ HdrIdle
    /\ TwoIdle
    /\ xpc = "start"
    /\ xT \in TransIds
    /\ xFamily \in {1, 2}
    /\ xIp \in (IF xFamily = 1 THEN IPs4 ELSE IPs6)
    /\ xPort \in Ports
    /\ xValue = <<>>
    /\ xResult = NoResult

XorEncodeStep ==
    /\ xpc = "start"
    /\ xValue' = XorEncode(xFamily, xIp, xPort, xT)
    /\ xpc' = "encoded"
    /\ UNCHANGED <<xT, xFamily, xIp, xPort, xResult>>
    /\ UNCHANGED <<callVars, hdrVars, twoVars>>

XorDecodeStep ==
    /\ xpc = "encoded"
    /\ xResult' = get_addr_XOR(xValue, xT)
    /\ xpc' = "decoded"
    /\ UNCHANGED <<xT, xFamily, xIp, xPort, xValue>>
    /\ UNCHANGED <<callVars, hdrVars, twoVars>>

NextXor ==
    \/ XorEncodeStep
    \/ XorDecodeStep

SpecXor == InitXor /\ [][NextXor]_vars

-----------------------------------------------------------------------------
(* makeHeader on its own: a header is built from its four fields and read  *)
(* back with the layout of recvMessage; where the fields are those of a    *)
(* binding request, the call that builds and sends it is followed as far   *)
(* as the end of sendMessage                                               *)

HdrTypes == {REQUEST, SUCCESS_RESPONSE, ERROR_RESPONSE, 32768, 65535}

HdrLengths == {0, 12, 1260, 32768, 65535}

\* 0x2112A442, 0, 0xFFFFFFFF and 0xDEADBEEF as int32
HdrCookies == {MAGIC_COOKIE, 0, -1, -559038737}

InitHdr ==
    /\ conn = "conn" /\ server = "server" /\ pc = "start"
    /\ secureRandomNumber = <<>> /\ request_header = <<>>
    /\ msgOff = 0 /\ msgLen = 0 /\ size = 0 /\ sent = <<>>
    /\ sendOK = FALSE /\ readAttempted = FALSE /\ readN = 0
    /\ dgram = <<>> /\ result = NoResult
    /\ xpc = "idle" /\ xT = <<>> /\ xFamily = 0 /\ xIp = <<>> /\ xPort = 0
    /\ xValue = <<>> /\ xResult = NoResult
    /\ TwoIdle
    /\ hpc = "start"
    /\ hType \in HdrTypes
    /\ hLen \in HdrLengths
    /\ hCookie \in HdrCookies
    /\ hTid \in TransIds
    /\ hBytes = <<>>
    /\ hParsed = <<>>

\* lines 68-87; type and length are passed as int16
HdrEncode ==
    /\ hpc = "start"
    /\ hBytes' = makeHeader(ToInt16(hType), ToInt16(hLen), hCookie, hTid)
    /\ hpc' = "encoded"
    /\ UNCHANGED <<hType, hLen, hCookie, hTid, hParsed>>
    /\ UNCHANGED <<callVars, xorVars, twoVars>>

\* lines 237-250
HdrParse ==
    /\ hpc = "encoded"
    /\ hParsed' = parseHeader(hBytes)
    /\ hpc' = "parsed"
    /\ UNCHANGED <<hType, hLen, hCookie, hTid, hBytes>>
    /\ UNCHANGED <<callVars, xorVars, twoVars>>

\* lines 307-332: the call up to the end of its send
HdrRequest ==
    /\ hpc = "parsed"
    /\ hType = REQUEST /\ hLen = 0 /\ hCookie = MAGIC_COOKIE
    /\ \/ CheckArgs
       \/ RandRead
       \/ MakeHeader
       \/ SendBegin
       \/ WriteToUDP

NextHdr ==
    \/ HdrEncode
    \/ HdrParse
    \/ HdrRequest

SpecHdr == InitHdr /\ [][NextHdr]_vars

-----------------------------------------------------------------------------
(* Two calls of RequestRemoteIPAndPort running concurrently on one conn,  *)
(* each with its own receive buffer, and the server answering them         *)

Calls == {1, 2}

\* what the server sends for a request whose id is tid: a success response
\* with one address attribute, or an error response
ServerResponses(tid) ==
       { StunHeader(SUCCESS_RESPONSE, Len(a.bytes), MAGIC_COOKIE, tid) \o a.bytes :
            a \in AddressAttrs(tid) }
  \cup { StunHeader(ERROR_RESPONSE, 0, MAGIC_COOKIE, tid) }

InitTwo ==
    /\ conn = "conn" /\ server = "server" /\ pc = "idle"
    /\ secureRandomNumber = <<>> /\ request_header = <<>>
    /\ msgOff = 0 /\ msgLen = 0 /\ size = 0 /\ sent = <<>>
    /\ sendOK = FALSE /\ readAttempted = FALSE /\ readN = 0
    /\ dgram = <<>> /\ result = NoResult
    /\ xpc = "idle" /\ xT = <<>> /\ xFamily = 0 /\ xIp = <<>> /\ xPort = 0
    /\ xValue = <<>> /\ xResult = NoResult
    /\ HdrIdle
    /\ cpc = [i \in Calls |-> "rand"]
    /\ ctid = [i \in Calls |-> Zeros(trans_id_size \div 8)]
    /\ cgot = [i \in Calls |-> [for |-> 0, bytes |-> <<>>]]
    /\ cres = [i \in Calls |-> NoResult]
    /\ wire = {}
    /\ inbox = {}

\* lines 316-320: call i draws its transaction id
TwoRand(i) ==
    /\ cpc[i] = "rand"
    /\ \E t \in TransIds : ctid' = [ctid EXCEPT ![i] = t]
    /\ cpc' = [cpc EXCEPT ![i] = "send"]
    /\ UNCHANGED <<cgot, cres, wire, inbox>>
    /\ UNCHANGED <<callVars, xorVars, hdrVars>>

\* lines 323-332: call i builds its request and the socket takes it whole
TwoSend(i) ==
    /\ cpc[i] = "send"
    /\ wire' = wire \cup { [from  |-> i,
                            bytes |-> makeHeader(REQUEST, 0, MAGIC_COOKIE, ctid[i])] }
    /\ cpc' = [cpc EXCEPT ![i] = "recv"]
    /\ UNCHANGED <<ctid, cgot, cres, inbox>>
    /\ UNCHANGED <<callVars, xorVars, hdrVars>>

\* the server answers a request, echoing the id it finds in bytes 8-19
ServerRespond ==
    /\ \E q \in wire :
          /\ wire' = wire \ {q}
          /\ \E r \in ServerResponses(SubSeq(q.bytes, 9, 20)) :
                inbox' = inbox \cup { [for |-> q.from, bytes |-> r] }
    /\ UNCHANGED <<cpc, ctid, cgot, cres>>
    /\ UNCHANGED <<callVars, xorVars, hdrVars>>

\* lines 335-340: call i reads whichever datagram the socket hands it
TwoRecv(i) ==
    /\ cpc[i] = "recv"
    /\ \E r \in inbox :
          /\ inbox' = inbox \ {r}
          /\ cgot' = [cgot EXCEPT ![i] = r]
          /\ cres' = [cres EXCEPT ![i] = recvMessage(r.bytes, ctid[i])]
    /\ cpc' = [cpc EXCEPT ![i] = "done"]
    /\ UNCHANGED <<ctid, wire>>
    /\ UNCHANGED <<callVars, xorVars, hdrVars>>

NextTwo ==
    \/ \E i \in Calls : TwoRand(i)
    \/ \E i \in Calls : TwoSend(i)
    \/ ServerRespond
    \/ \E i \in Calls : TwoRecv(i)

SpecTwo == InitTwo /\ [][NextTwo]_vars

-----------------------------------------------------------------------------
(* Properties *)

Returned == pc \in {"done", "panic"}

\* errors that report a truncated or malformed attribute stream
AttributeParseErrors == {"CannotParseEmptyBody", "UnexpectedEOF", "EmptyAttribute"}

\* the message_length of d's header read as 16 unsigned bits
DeclaredLength(d) == U16(At(d, 3), At(d, 4))

\* C1: a success response echoing the call's id whose body is a USERNAME
\* attribute of L value bytes followed by a well-formed XOR-MAPPED-ADDRESS
\* attribute, message_length covering both, resolves the address encoded in
\* the XOR-MAPPED-ADDRESS attribute.
C1_SkipAndContinue ==
    \A k \in 0..MaxUserLen : \A ip \in IPs4 :
        dgram = StunHeader(SUCCESS_RESPONSE, 4 + k + 12, MAGIC_COOKIE,
                           secureRandomNumber)
                  \o Attr(USERNAME, k, [i \in 1..k |-> 96 + i])
                  \o Attr(XOR_MAPPED_ADDRESS, 8,
                          XorEncode(1, ip, 12345, secureRandomNumber))
        => result = Ret(UDPAddr(ip, 12345), NoErr)

\* C2: when the attribute loop meets an attribute whose declared length is
\* more than the body bytes left within message_length after its type and
\* length, the call ends with an attribute parse error and no address, and
\* never with a panic.
C2_TruncationSafety ==
    (dgram # <<>> /\ reachesLoop(dgram, secureRandomNumber)
        /\ lastLoop(dgram, secureRandomNumber).overrun)
    => /\ ~result.panicked
       /\ result.addr.isNil
       /\ result.err.kind \in AttributeParseErrors

\* C3: every received datagram of type 0x0101 whose transaction id differs
\* from the call's id yields Unknown_Transaction_Id and no address, whatever
\* the rest of the datagram holds.
C3_CorrelationCheck ==
    (dgram # <<>> /\ U16(At(dgram, 1), At(dgram, 2)) = SUCCESS_RESPONSE
        /\ Slice(dgram, 8, 20) # secureRandomNumber)
    => result = Ret(NilAddr, Err("Unknown_Transaction_Id",
                                 Slice(dgram, 8, 20), secureRandomNumber))

\* C4: every received datagram whose type is not 0x0101 yields
\* Not_Success_Response carrying the 20-byte header and the body cut to
\* message_length, and no address.
C4_NonSuccessRejection ==
    (dgram # <<>> /\ U16(At(dgram, 1), At(dgram, 2)) # SUCCESS_RESPONSE)
    => /\ ~result.panicked
       /\ result.addr.isNil
       /\ result.err.kind = "Not_Success_Response"
       /\ result.err.a = Slice(dgram, 0, 20)
       /\ Len(result.err.b) = DeclaredLength(dgram)
       /\ \A i \in 1..Len(result.err.b) : result.err.b[i] = At(dgram, 20 + i)

\* C5: the datagram {0x0101, length 12, cookie, the call's id} followed by
\* {0x0020, length 8, family 1, xport, xip} makes the call return, with no
\* error, port xport XOR 0x2112 and ip xip XOR 21 12 A4 42; for id 00..0B,
\* port 12345 and ip 203.0.113.5 that is 203.0.113.5:12345.
C5_HappyPath ==
    /\ \A ip \in IPs4 :
          LET v == XorEncode(1, ip, 12345, secureRandomNumber)
          IN  dgram = <<1, 1, 0, 12, 33, 18, 164, 66>> \o secureRandomNumber
                        \o <<0, 32, 0, 8>> \o v
              => /\ pc = "done"
                 /\ result = Ret(UDPAddr(<<XorBits(v[5], 33, 8), XorBits(v[6], 18, 8),
                                           XorBits(v[7], 164, 8), XorBits(v[8], 66, 8)>>,
                                         XorBits(U16(v[3], v[4]), 8466, 16)), NoErr)
    /\ dgram = <<1, 1, 0, 12, 33, 18, 164, 66, 0, 1, 2, 3, 4, 5, 6, 7, 8, 9, 10, 11,
                 0, 32, 0, 8, 0, 1, 17, 43, 234, 18, 213, 71>>
       /\ secureRandomNumber = <<0, 1, 2, 3, 4, 5, 6, 7, 8, 9, 10, 11>>
       => /\ pc = "done"
          /\ result = Ret(UDPAddr(<<203, 0, 113, 5>>, 12345), NoErr)

C5_Witness ==
    /\ pc = "done"
    /\ dgram = <<1, 1, 0, 12, 33, 18, 164, 66, 0, 1, 2, 3, 4, 5, 6, 7, 8, 9, 10, 11,
                 0, 32, 0, 8, 0, 1, 17, 43, 234, 18, 213, 71>>
    /\ secureRandomNumber = <<0, 1, 2, 3, 4, 5, 6, 7, 8, 9, 10, 11>>
    /\ result.addr = UDPAddr(<<203, 0, 113, 5>>, 12345)

\* C6: decoding with get_addr_XOR and id T the value a server builds from
\* (family, ip, port) and T, xport = port XOR 0x2112 and xip = ip XOR mask,
\* returns exactly (ip, port), for IPv4 and for IPv6.
C6_XorRoundTrip ==
    xpc = "decoded" => xResult = Ret(UDPAddr(xIp, xPort), NoErr)

C6_Witness ==
    /\ xpc = "decoded"
    /\ xFamily = 2
    /\ Len(xValue) = 20
    /\ xPort = 65535
    /\ xResult.addr = UDPAddr(xIp, xPort)

\* C7: a read is attempted only after sendMessage has returned without error,
\* having handed the socket exactly the request header; never after a failed
\* send; and the id a response is compared against is the id in that header.
C7_SendBeforeReceive ==
    /\ readAttempted => (sendOK /\ Len(sent) = 20 /\ sent = request_header)
    /\ (pc = "done" /\ result.err.kind \in {"WriteError", "Message_Send_Error",
                                            "Gen_Random_Error"})
          => ~readAttempted
    /\ (Returned /\ dgram # <<>>) =>
          LET sentId == SubSeq(sent, 9, 20)
              theirs == Slice(dgram, 8, 20)
          IN  /\ result.err.kind = "Unknown_Transaction_Id"
                    => (result.err.b = sentId /\ result.err.a = theirs
                        /\ theirs # sentId)
              /\ (result.err.kind # "Unknown_Transaction_Id" /\ ~result.panicked
                  /\ result.err.kind # "Not_Success_Response")
                    => theirs = sentId

C7_Witness ==
    /\ pc = "done"
    /\ readAttempted
    /\ sendOK
    /\ result.err.kind = "Unknown_Transaction_Id"
    /\ result.err.b = SubSeq(sent, 9, 20)

\* C8: in sendMessage the remaining-byte counter never goes negative, no
\* bytes outside header ++ body are ever offered to the socket, and on
\* success the bytes the socket took are exactly header ++ body.
C8_SendWritesFullBuffer ==
    /\ pc = "write" => (size >= 0 /\ msgOff + msgLen <= Len(request_header))
    /\ sendOK => sent = request_header

\* C9: a call with a nil socket or a nil server address returns an error of
\* a kind of its own (not the random-generation, header-encoding, send or
\* receive error) and no address, without generating an id, sending or
\* reading.
C9_ConfigurationError ==
    (Returned /\ (conn = NIL \/ server = NIL))
    => /\ pc = "done"
       /\ result.addr.isNil
       /\ result.err.kind \notin {NIL, "Gen_Random_Error", "Make_Header_Error",
                                  "Message_Send_Error", "WriteError", "ReadError"}
       /\ secureRandomNumber = <<>>
       /\ sent = <<>>
       /\ ~readAttempted

\* C10: the outcome of recvMessage depends only on the header and the first
\* message_length bytes after it: a datagram that differs from the one
\* received only beyond those bytes has the same outcome.
C10_BodyTruncation ==
    dgram # <<>> =>
        \A t \in Trailers :
            recvMessage(Slice(dgram, 0, Min(20 + DeclaredLength(dgram), PacketSize)) \o t,
                        secureRandomNumber) = result

\* C11: a datagram of 1 to 19 bytes, shorter than a header, makes the call
\* fail with an AttributeParseError and no address; the rest of the receive
\* buffer, which the read did not fill, is never taken for header fields.
C11_ShortDatagram ==
    (Returned /\ readN \in 1..(HeaderSize - 1)) =>
        /\ ~result.panicked
        /\ result.addr = NilAddr
        /\ result.err.kind \in AttributeParseErrors

\* bodies of up to n well-formed attributes, none of them an address attribute
RECURSIVE SkippedBodies(_)
SkippedBodies(n) ==
    IF n = 0 THEN { <<>> }
    ELSE SkippedBodies(n - 1)
         \cup { b \o a : b \in SkippedBodies(n - 1), a \in SkippedAttrs }

\* C12: a success response with the call's id whose body, as long as
\* message_length says, is zero or more well-formed attributes none of which
\* is MAPPED-ADDRESS or XOR-MAPPED-ADDRESS gives no address and no error.
C12_NoAddressAttribute ==
    (/\ Returned
     /\ \E b \in SkippedBodies(MaxAttrs) :
           dgram = StunHeader(SUCCESS_RESPONSE, Len(b), MAGIC_COOKIE,
                              secureRandomNumber) \o b)
    => result = Ret(NilAddr, NoErr)

\* C13: the receive step returns only when a read gave more than zero bytes
\* or failed; after a read of zero bytes without error the call is still in
\* its read loop, where the next step is another read, so a call to which
\* neither a non-empty datagram nor a socket error comes never returns.
C13_ZeroLengthRetry ==
    /\ (readAttempted /\ readN = 0 /\ result.err.kind # "ReadError")
          => pc = "recv" /\ result = NoResult
    /\ (Returned /\ readAttempted)
          => \/ readN > 0 /\ Len(dgram) = readN
             \/ result.err.kind = "ReadError"

\* a read of zero bytes has happened and the call is still receiving
C13_Witness == pc = "recv" /\ readAttempted /\ readN = 0 /\ dgram = <<>>

C15_OrderOfValidation ==
    (Returned /\ Len(dgram) >= HeaderSize) =>
       LET data == parseHeader(dgram)
       IN  /\ (/\ data.Message_type # SUCCESS_RESPONSE
               /\ data.Transaction_id # secureRandomNumber)
              => /\ ~result.panicked
                 /\ result.err.kind = "Not_Success_Response"
           /\ result.err.kind = "Unknown_Transaction_Id"
              => data.Message_type = SUCCESS_RESPONSE

\* C16: in a success response with the call's id the walk stops at the first
\* MAPPED-ADDRESS or XOR-MAPPED-ADDRESS attribute and returns the address it
\* encodes (for a family no RFC defines, no address and no error); whatever
\* follows that attribute, a second address attribute or a malformed one
\* included, does not change the result.
C16_FirstAddressWins ==
    (Returned /\ Len(dgram) >= HeaderSize) =>
       \A p \in SkippedBodies(1), a \in AddressAttrs(secureRandomNumber),
          r \in Bodies(secureRandomNumber, 1) :
          dgram = StunHeader(SUCCESS_RESPONSE, Len(p) + Len(a.bytes) + Len(r),
                             MAGIC_COOKIE, secureRandomNumber)
                  \o p \o a.bytes \o r
          => result = Ret(a.addr, NoErr)

\* C17: for an XOR-MAPPED-ADDRESS value of at least 4 bytes whose family byte
\* is neither 0x01 nor 0x02 get_addr_XOR returns no address and no error, and
\* so does the call for a success response with its id whose first address
\* attribute is such an attribute.
C17_UnsupportedFamily ==
    (Returned /\ Len(dgram) >= HeaderSize) =>
       \A p \in SkippedBodies(1), a \in AddressAttrs(secureRandomNumber),
          r \in Bodies(secureRandomNumber, 1) :
          (/\ a.bytes[6] \notin {1, 2}
           /\ BE16(XOR_MAPPED_ADDRESS) = SubSeq(a.bytes, 1, 2)
           /\ dgram = StunHeader(SUCCESS_RESPONSE,
                                 Len(p) + Len(a.bytes) + Len(r),
                                 MAGIC_COOKIE, secureRandomNumber)
                      \o p \o a.bytes \o r)
          => /\ get_addr_XOR(SubSeq(a.bytes, 5, Len(a.bytes)),
                             secureRandomNumber) = Ret(NilAddr, NoErr)
             /\ result = Ret(NilAddr, NoErr)

\* C18: makeHeader gives exactly 20 bytes, type, length, magic cookie and
\* transaction id in that order, big-endian, and reading them back with the
\* layout of recvMessage gives the four fields again; the request of a call
\* is that header for type 0x0001, length 0, cookie 0x2112A442 and the
\* call's id, and a send that succeeds has transmitted it and nothing else.
C18_HeaderRoundTrip ==
    /\ hpc \in {"encoded", "parsed"} =>
          /\ Len(hBytes) = 20
          /\ hBytes = << hType \div 256, hType % 256, hLen \div 256, hLen % 256 >>
                      \o (CASE hCookie = MAGIC_COOKIE -> <<33, 18, 164, 66>>
                            [] hCookie = 0            -> <<0, 0, 0, 0>>
                            [] hCookie = -1           -> <<255, 255, 255, 255>>
                            [] hCookie = -559038737   -> <<222, 173, 190, 239>>)
                      \o hTid
    /\ hpc = "parsed" =>
          /\ hParsed.Message_type = ToInt16(hType)
          /\ hParsed.Message_length = ToInt16(hLen)
          /\ hParsed.Magic_cookie = hCookie
          /\ hParsed.Transaction_id = hTid
    /\ pc \in {"send", "write", "recv"} =>
          request_header = <<0, 1, 0, 0, 33, 18, 164, 66>> \o secureRandomNumber
    /\ sendOK => sent = <<0, 1, 0, 0, 33, 18, 164, 66>> \o secureRandomNumber

\* a request header has been built and read back, and a call, with another
\* id, has sent its own request
C18_Witness ==
    /\ hpc = "parsed"
    /\ hParsed.Message_type = REQUEST
    /\ hParsed.Magic_cookie = MAGIC_COOKIE
    /\ pc = "recv" /\ sendOK
    /\ hTid # secureRandomNumber
    /\ SubSeq(sent, 1, 8) = SubSeq(hBytes, 1, 8)
    /\ SubSeq(sent, 9, 20) = secureRandomNumber

\* datagram d with header bytes 4-7 replaced by the four bytes ck
SetCookie(d, ck) ==
    [i \in 1..Len(d) |-> IF i \in 5..8 THEN ck[i - 4] ELSE d[i]]

CookieVariants == { <<33, 18, 164, 66>>, <<0, 0, 0, 0>>, <<255, 255, 255, 255>> }

\* C19: the outcome of recvMessage does not depend on the magic cookie of
\* the received header: a datagram that differs from the received one only
\* in header bytes 4-7 gives the same address and the same error.
C19_CookieNotValidated ==
    (Returned /\ Len(dgram) >= HeaderSize) =>
       \A ck \in CookieVariants :
          recvMessage(SetCookie(dgram, ck), secureRandomNumber) = result

\* C19, amended: a datagram that differs from the received one only in header
\* bytes 4-7 gives the same address, the same panic or kind of error and the
\* same error contents, but for the copy of the received header, cookie
\* included, that a Not_Success_Response carries; a success response with the
\* call's id and another cookie is decoded with the mask 0x2112A442.
C19_CookieNotValidated_amended ==
    (Returned /\ Len(dgram) >= HeaderSize) =>
       \A ck \in CookieVariants :
          LET other == recvMessage(SetCookie(dgram, ck), secureRandomNumber)
          IN  /\ other.addr = result.addr
              /\ other.panicked = result.panicked
              /\ other.err.kind = result.err.kind
              /\ other.err.b = result.err.b
              /\ IF result.err.kind = "Not_Success_Response"
                 THEN /\ other.err.a = SubSeq(SetCookie(dgram, ck), 1, HeaderSize)
                      /\ result.err.a = SubSeq(dgram, 1, HeaderSize)
                 ELSE other.err.a = result.err.a

\* a success response with the call's id and cookie 00 00 00 00 has given
\* the address its XOR-MAPPED-ADDRESS attribute encodes under 0x2112A442
C19_Witness ==
    /\ pc = "done"
    /\ Len(dgram) >= HeaderSize
    /\ SubSeq(dgram, 5, 8) = <<0, 0, 0, 0>>
    /\ SubSeq(dgram, 9, 20) = secureRandomNumber
    /\ result = Ret(UDPAddr(<<203, 0, 113, 5>>, 12345), NoErr)

\* C20: the attribute loop ends after at most ceil(message_length / 4) turns,
\* each turn that does not return adding at least 4 to bytes_read; this holds
\* for attributes of length zero as well.
C20_WalkTerminates ==
    (Returned /\ readN > 0 /\ reachesLoop(dgram, secureRandomNumber)) =>
       LET l == lastLoop(dgram, secureRandomNumber)
           Message_length == parseHeader(dgram).Message_length
       IN  /\ l.out = result
           /\ 4 * l.turns <= Message_length + 3
           /\ l.bytes_read >= 4 * (l.turns - 1)
           /\ (l.turns = 0) = (Message_length = 0)

\* a body of 1260 zero bytes, 315 attributes of length zero, has been walked
\* to its end in 315 turns
C20_Witness ==
    /\ pc = "done"
    /\ readN = HeaderSize
    /\ reachesLoop(dgram, secureRandomNumber)
    /\ parseHeader(dgram).Message_length = PacketSize - HeaderSize
    /\ lastLoop(dgram, secureRandomNumber).turns = 315
    /\ result = Ret(NilAddr, NoErr)

====
